---- MODULE Spec2Model ----
(***************************************************************************)
(* bitmex-stream: the stream returned by subscribe and                     *)
(* subscribe_with_credentials (src/src/lib.rs).                            *)
(*                                                                         *)
(* The stream is one generator (async_stream's stream!) that the caller    *)
(* polls.  Its state is the generator's position (pc) and locals: the      *)
(* retry delay of connect_async, last_bitmex_message, and the tokio sleep  *)
(* of the current select!.  The transport is the                           *)
(* environment: every connection attempt, every send and every             *)
(* connection.next() resolves to an outcome the environment chooses.       *)
(*                                                                         *)
(* Time is counted in whole seconds and kept as the two durations the      *)
(* code reads: last_bitmex_message.elapsed() and the time left of the      *)
(* sleep.  A tokio sleep never completes early and may complete late, so   *)
(* the idle timer may be handled up to MaxLate seconds after its deadline. *)
(* Time before line 92 is not tracked, and SystemTime::now() is taken to   *)
(* be after the Unix epoch (line 77 does not fail).                        *)
(***************************************************************************)
EXTENDS Integers, Sequences, FiniteSets, TLC

VARIABLES
    pc,            \* where the generator is suspended
    credentials,   \* Option<Credentials>: TRUE is Some(_)
    topics,        \* the caller's topic array
    delay,         \* connect_async's local `delay` (ms); 0 outside connect_async
    fails,         \* failed attempts of the current connect_async call
    elapsed,       \* last_bitmex_message.elapsed(), in seconds
    sleep,         \* seconds until the sleep of the current select! completes
    commands,      \* the Authenticate and Subscribe sends, in order, with results
    pings,         \* Ping sends since last_bitmex_message was set
    received,      \* every result connection.next() has returned, in order
    items,         \* what the stream has handed to the caller, in order
    last_ping,     \* the most recent Ping send with its result; <<>> before any
    paused,        \* time has passed with an item pending since last_bitmex_message was set
    abandoned,     \* the caller has dropped the stream
    call           \* a call of Credentials::sign or of to_string, with its result

vars == <<pc, credentials, topics, delay, fails, elapsed, sleep, commands,
          pings, received, items, last_ping, paused, abandoned, call>>

----------------------------------------------------------------------------
(* Bounds of the model *)

MaxFails == 6
MaxElapsed == 27
MaxLate == 1
MaxFrames == 2

(* Program constants *)

InitialDelay == 500
MaxDelay == 8000
PingEvery == 5
SilenceLimit == 20

Payloads == {"a", "b"}
TopicLists == {<<"b", "a", "b">>, <<"a">>}

Min(a, b) == IF a <= b THEN a ELSE b

(* tungstenite::Message as connection.next() yields it, and the two other
   results of next(): None (clean end of stream) and Some(Err(e)). *)
TextFrames == [kind : {"Text"}, data : Payloads]
OtherFrames == [kind : {"Pong", "Binary", "Ping", "Close"}, data : {"a"}]
Frames == TextFrames \cup OtherFrames
EndOfStream == [kind |-> "None", data |-> ""]
ReadError == [kind |-> "Err", data |-> "read error"]
NextResults == Frames \cup {EndOfStream, ReadError}

(* A send resolves Ok, resolves Err, or never resolves. *)
SendResults == {"ok", "err", "hang"}

(* Items of the stream: Result<String>. *)
OkItem(text) == [ok |-> TRUE, val |-> text]
ErrItem(e) == [ok |-> FALSE, val |-> e]
TimedOut == ErrItem("BitMex websocket timed out")
SendError == ErrItem("send error")

(* Commands handed to connection.send, with the result of the send *)
AuthenticateCommand == [cmd |-> "Authenticate", topics |-> <<>>]

(* A variant of SubscribeCommand: the topic list without its repetitions. *)
Dedup(t) == SelectSeq([i \in DOMAIN t |-> IF \E j \in 1..(i - 1) : t[j] = t[i] THEN "" ELSE t[i]],
                      LAMBDA x : x # "")
SubscribeCommand_Dedup(t) == [cmd |-> "Subscribe", topics |-> Dedup(t)]

SubscribeCommand(t) == [cmd |-> "Subscribe", topics |-> t]

(* tungstenite::Message::Ping([0u8; 32].to_vec()) *)
PingFrame == [cmd |-> "Ping", payload |-> [i \in 1..32 |-> 0]]
Sent(msg, res) == [msg |-> msg, res |-> res]

----------------------------------------------------------------------------
Init ==
    /\ pc = "connect"
    /\ credentials \in BOOLEAN
    /\ topics \in TopicLists
    /\ delay = InitialDelay
    /\ fails = 0
    /\ elapsed = 0
    /\ sleep = 0
    /\ commands = <<>>
    /\ pings = 0
    /\ received = <<>>
    /\ items = <<>>
    /\ last_ping = <<>>
    /\ paused = FALSE
    /\ abandoned = FALSE
    /\ call = <<>>

(* A variant of ConnectFail: the failed attempt is returned to the caller of
   connect_async, whose `?` (line 70) turns it into an error item. *)
ConnectFail_Surfaced(kind) ==
    /\ pc = "connect"
    /\ fails < MaxFails
    /\ kind \in {"timeout", "error"}
    /\ fails' = fails + 1
    /\ items' = Append(items, ErrItem("Could not connect to websocket"))
    /\ pc' = "yield_err"
    /\ UNCHANGED <<credentials, topics, delay, elapsed, sleep, commands,
                   pings, received,
                   last_ping, paused, abandoned, call>>

(* connect_async: an attempt times out or fails; the loop goes on to sleep. *)
ConnectFail(kind) ==
    /\ pc = "connect"
    /\ fails < MaxFails
    /\ kind \in {"timeout", "error"}
    /\ fails' = fails + 1
    /\ pc' = "backoff"
    /\ UNCHANGED <<credentials, topics, delay, elapsed, sleep, commands,
                   pings, received, items,
                   last_ping, paused, abandoned, call>>

(* A variant of Backoff: the doubling without the cap. *)
Backoff_NoCap ==
    /\ pc = "backoff"
    /\ delay' = delay * 2
    /\ pc' = "connect"
    /\ UNCHANGED <<credentials, topics, fails, elapsed, sleep, commands,
                   pings, received, items,
                   last_ping, paused, abandoned, call>>

(* connect_async: the sleep of `delay` ms is over; the delay doubles. *)
Backoff ==
    /\ pc = "backoff"
    /\ delay' = Min(MaxDelay, delay * 2)
    /\ pc' = "connect"
    /\ UNCHANGED <<credentials, topics, fails, elapsed, sleep, commands,
                   pings, received, items,
                   last_ping, paused, abandoned, call>>

(* A variant of ConnectOk: the Authenticate step is taken whatever
   `credentials` is. *)
ConnectOk_AlwaysAuth ==
    /\ pc = "connect"
    /\ pc' = "auth"
    /\ delay' = 0
    /\ fails' = 0
    /\ UNCHANGED <<credentials, topics, elapsed, sleep, commands,
                   pings, received, items,
                   last_ping, paused, abandoned, call>>

(* connect_async returns Ok: its locals are gone. *)
ConnectOk ==
    /\ pc = "connect"
    /\ pc' = IF credentials THEN "auth" ELSE "subscribe"
    /\ delay' = 0
    /\ fails' = 0
    /\ UNCHANGED <<credentials, topics, elapsed, sleep, commands,
                   pings, received, items,
                   last_ping, paused, abandoned, call>>

(* The Authenticate send; its result is dropped (let _ =). *)
SendAuthenticate(res) ==
    /\ pc = "auth"
    /\ commands' = Append(commands, Sent(AuthenticateCommand, res))
    /\ pc' = IF res = "hang" THEN "init_hung" ELSE "subscribe"
    /\ UNCHANGED <<credentials, topics, delay, fails, elapsed, sleep,
                   pings, received, items,
                   last_ping, paused, abandoned, call>>

(* A variant of SendSubscribe: the result of the send is propagated with `?`
   instead of being dropped. *)
SendSubscribe_Fatal(res) ==
    /\ pc = "subscribe"
    /\ commands' = Append(commands, Sent(SubscribeCommand(topics), res))
    /\ CASE res = "hang" ->
              /\ pc' = "init_hung"
              /\ UNCHANGED <<elapsed, sleep, items>>
         [] res = "err" ->
              /\ pc' = "yield_err"
              /\ items' = Append(items, SendError)
              /\ UNCHANGED <<elapsed, sleep>>
         [] OTHER ->
              /\ pc' = "select"
              /\ elapsed' = 0
              /\ sleep' = PingEvery
              /\ UNCHANGED items
    /\ UNCHANGED <<credentials, topics, delay, fails, pings, received,
                   last_ping, paused, abandoned, call>>

(* The Subscribe send; its result is dropped; then line 92 and the first
   select! of the loop with its new sleep. *)
SendSubscribe(res) ==
    /\ pc = "subscribe"
    /\ commands' = Append(commands, Sent(SubscribeCommand(topics), res))
    /\ IF res = "hang"
       THEN /\ pc' = "init_hung"
            /\ UNCHANGED <<elapsed, sleep>>
       ELSE /\ pc' = "select"
            /\ elapsed' = 0
            /\ sleep' = PingEvery
    /\ UNCHANGED <<credentials, topics, delay, fails, pings, received, items,
                   last_ping, paused, abandoned, call>>

(* A variant of SilenceExceeded: >= in place of >. *)
SilenceExceeded_AtLeast == elapsed >= SilenceLimit

(* last_bitmex_message.elapsed() > Duration::from_secs(20) *)
SilenceExceeded == elapsed > SilenceLimit

(* A variant of TimerFired: the Ping is sent before the silence is checked. *)
TimerFired_PingFirst(res) ==
    /\ pc = "select"
    /\ sleep <= 0
    /\ pings' = pings + 1
    /\ last_ping' = Sent(PingFrame, res)
    /\ CASE res = "ok" /\ ~SilenceExceeded ->
              /\ pc' = "select"
              /\ sleep' = PingEvery
              /\ UNCHANGED items
         [] res = "ok" /\ SilenceExceeded ->
              /\ items' = Append(items, TimedOut)
              /\ pc' = "yield_err"
              /\ sleep' = 0
         [] res = "err" ->
              /\ items' = Append(items, SendError)
              /\ pc' = "yield_err"
              /\ sleep' = 0
         [] OTHER ->
              /\ pc' = "ping_hung"
              /\ sleep' = 0
              /\ UNCHANGED items
    /\ UNCHANGED <<credentials, topics, delay, fails, elapsed, commands,
                   received, paused, abandoned, call>>

(* A variant of TimerFired: a failed Ping send is dropped like the results of
   the Authenticate and Subscribe sends. *)
TimerFired_PingErrorDropped(res) ==
    /\ pc = "select"
    /\ sleep <= 0
    /\ IF SilenceExceeded
       THEN /\ items' = Append(items, TimedOut)
            /\ pc' = "yield_err"
            /\ sleep' = 0
            /\ UNCHANGED <<pings, last_ping>>
       ELSE /\ pings' = pings + 1
            /\ last_ping' = Sent(PingFrame, res)
            /\ CASE res = "ok" ->
                      /\ pc' = "select"
                      /\ sleep' = PingEvery
                      /\ UNCHANGED items
                 [] res = "err" ->
                      /\ pc' = "select"
                      /\ sleep' = PingEvery
                      /\ UNCHANGED items
                 [] OTHER ->
                      /\ pc' = "ping_hung"
                      /\ sleep' = 0
                      /\ UNCHANGED items
    /\ UNCHANGED <<credentials, topics, delay, fails, elapsed, commands,
                   received, paused, abandoned, call>>

(* A variant of TimerFired: the silence is checked only once a Ping has gone
   unanswered. *)
TimerFired_AfterPingOnly(res) ==
    /\ pc = "select"
    /\ sleep <= 0
    /\ IF SilenceExceeded /\ pings > 0
       THEN /\ items' = Append(items, TimedOut)
            /\ pc' = "yield_err"
            /\ sleep' = 0
            /\ UNCHANGED <<pings, last_ping>>
       ELSE /\ pings' = pings + 1
            /\ last_ping' = Sent(PingFrame, res)
            /\ CASE res = "ok" ->
                      /\ pc' = "select"
                      /\ sleep' = PingEvery
                      /\ UNCHANGED items
                 [] res = "err" ->
                      /\ items' = Append(items, SendError)
                      /\ pc' = "yield_err"
                      /\ sleep' = 0
                 [] OTHER ->
                      /\ pc' = "ping_hung"
                      /\ sleep' = 0
                      /\ UNCHANGED items
    /\ UNCHANGED <<credentials, topics, delay, fails, elapsed, commands,
                   received, paused, abandoned, call>>

(* select!: the sleep branch. *)
TimerFired(res) ==
    /\ pc = "select"
    /\ sleep <= 0
    /\ IF SilenceExceeded
       THEN /\ items' = Append(items, TimedOut)
            /\ pc' = "yield_err"
            /\ sleep' = 0
            /\ UNCHANGED <<pings, last_ping>>
       ELSE /\ pings' = pings + 1
            /\ last_ping' = Sent(PingFrame, res)
            /\ CASE res = "ok" ->
                      /\ pc' = "select"
                      /\ sleep' = PingEvery
                      /\ UNCHANGED items
                 [] res = "err" ->
                      /\ items' = Append(items, SendError)
                      /\ pc' = "yield_err"
                      /\ sleep' = 0
                 [] OTHER ->
                      /\ pc' = "ping_hung"
                      /\ sleep' = 0
                      /\ UNCHANGED items
    /\ UNCHANGED <<credentials, topics, delay, fails, elapsed, commands,
                   received, paused, abandoned, call>>

(* A variant of MatchMessage: Binary frames are relayed like Text frames. *)
MatchMessage_BinaryRelayed(msg) ==
    CASE msg.kind = "Pong" -> "continue"
      [] msg.kind \in {"Text", "Binary"} -> "yield"
      [] OTHER -> "continue"

(* match msg { Pong(_) => continue, Text(text) => yield Ok(text),
               other => continue } *)
MatchMessage(msg) ==
    CASE msg.kind = "Pong" -> "continue"
      [] msg.kind = "Text" -> "yield"
      [] OTHER -> "continue"

(* A variant of NextMessage: a clean end of the transport is reported as an
   error item. *)
NextMessage_EndIsError(msg) ==
    /\ pc = "select"
    /\ msg \in Frames => Len(received) < MaxFrames
    /\ elapsed' = 0
    /\ pings' = 0
    /\ received' = Append(received, msg)
    /\ paused' = FALSE
    /\ CASE msg.kind = "None" ->
              /\ items' = Append(items, ErrItem("connection closed"))
              /\ pc' = "yield_err"
              /\ sleep' = 0
         [] msg.kind = "Err" ->
              /\ items' = Append(items, ErrItem(msg.data))
              /\ pc' = "yield_err"
              /\ sleep' = 0
         [] MatchMessage(msg) = "yield" ->
              /\ items' = Append(items, OkItem(msg.data))
              /\ pc' = "yield_text"
              /\ sleep' = 0
         [] OTHER ->
              /\ pc' = "select"
              /\ sleep' = PingEvery
              /\ UNCHANGED items
    /\ UNCHANGED <<credentials, topics, delay, fails, commands,
                   last_ping, abandoned, call>>

(* A variant of NextMessage: frames are read ahead while an item is pending. *)
NextMessage_ReadAhead(msg) ==
    /\ pc \in {"select", "yield_text"}
    /\ msg \in Frames => Len(received) < MaxFrames
    /\ elapsed' = 0
    /\ pings' = 0
    /\ received' = Append(received, msg)
    /\ paused' = FALSE
    /\ CASE msg.kind = "None" ->
              /\ pc' = "done"
              /\ sleep' = 0
              /\ UNCHANGED items
         [] msg.kind = "Err" ->
              /\ items' = Append(items, ErrItem(msg.data))
              /\ pc' = "yield_err"
              /\ sleep' = 0
         [] MatchMessage(msg) = "yield" ->
              /\ items' = Append(items, OkItem(msg.data))
              /\ pc' = "yield_text"
              /\ sleep' = 0
         [] OTHER ->
              /\ pc' = "select"
              /\ sleep' = PingEvery
              /\ UNCHANGED items
    /\ UNCHANGED <<credentials, topics, delay, fails, commands,
                   last_ping, abandoned, call>>

(* A variant of NextMessage: only a Text frame sets last_bitmex_message. *)
NextMessage_OnlyTextResets(msg) ==
    /\ pc = "select"
    /\ msg \in Frames => Len(received) < MaxFrames
    /\ elapsed' = IF msg.kind = "Text" THEN 0 ELSE elapsed
    /\ pings' = 0
    /\ received' = Append(received, msg)
    /\ paused' = FALSE
    /\ CASE msg.kind = "None" ->
              /\ pc' = "done"
              /\ sleep' = 0
              /\ UNCHANGED items
         [] msg.kind = "Err" ->
              /\ items' = Append(items, ErrItem(msg.data))
              /\ pc' = "yield_err"
              /\ sleep' = 0
         [] MatchMessage(msg) = "yield" ->
              /\ items' = Append(items, OkItem(msg.data))
              /\ pc' = "yield_text"
              /\ sleep' = 0
         [] OTHER ->
              /\ pc' = "select"
              /\ sleep' = PingEvery
              /\ UNCHANGED items
    /\ UNCHANGED <<credentials, topics, delay, fails, commands,
                   last_ping, abandoned, call>>

(* A variant of NextMessage: one sleep is kept across the iterations of the
   loop; a frame that is not relayed does not restart it. *)
NextMessage_SleepKept(msg) ==
    /\ pc = "select"
    /\ msg \in Frames => Len(received) < MaxFrames
    /\ elapsed' = 0
    /\ pings' = 0
    /\ received' = Append(received, msg)
    /\ paused' = FALSE
    /\ CASE msg.kind = "None" ->
              /\ pc' = "done"
              /\ sleep' = 0
              /\ UNCHANGED items
         [] msg.kind = "Err" ->
              /\ items' = Append(items, ErrItem(msg.data))
              /\ pc' = "yield_err"
              /\ sleep' = 0
         [] MatchMessage(msg) = "yield" ->
              /\ items' = Append(items, OkItem(msg.data))
              /\ pc' = "yield_text"
              /\ sleep' = 0
         [] OTHER ->
              /\ pc' = "select"
              /\ sleep' = sleep
              /\ UNCHANGED items
    /\ UNCHANGED <<credentials, topics, delay, fails, commands,
                   last_ping, abandoned, call>>

(* select!: the connection.next() branch. *)
NextMessage(msg) ==
    /\ pc = "select"
    /\ msg \in Frames => Len(received) < MaxFrames
    /\ elapsed' = 0
    /\ pings' = 0
    /\ received' = Append(received, msg)
    /\ paused' = FALSE
    /\ CASE msg.kind = "None" ->
              /\ pc' = "done"
              /\ sleep' = 0
              /\ UNCHANGED items
         [] msg.kind = "Err" ->
              /\ items' = Append(items, ErrItem(msg.data))
              /\ pc' = "yield_err"
              /\ sleep' = 0
         [] MatchMessage(msg) = "yield" ->
              /\ items' = Append(items, OkItem(msg.data))
              /\ pc' = "yield_text"
              /\ sleep' = 0
         [] OTHER ->
              /\ pc' = "select"
              /\ sleep' = PingEvery
              /\ UNCHANGED items
    /\ UNCHANGED <<credentials, topics, delay, fails, commands,
                   last_ping, abandoned, call>>

(* A variant of Resume: the `return` after an error item is missing, so the
   loop goes on. *)
Resume_NoReturn ==
    /\ pc \in {"yield_text", "yield_err"}
    /\ pc' = "select"
    /\ sleep' = PingEvery
    /\ UNCHANGED <<credentials, topics, delay, fails, elapsed, commands,
                   pings, received, items,
                   last_ping, paused, abandoned, call>>

(* The caller polls again after an item: the generator resumes after its
   yield.  After a text item the loop starts its next iteration (a new
   sleep); after an error item the generator returns. *)
Resume ==
    /\ pc \in {"yield_text", "yield_err"}
    /\ IF pc = "yield_text"
       THEN /\ pc' = "select"
            /\ sleep' = PingEvery
       ELSE /\ pc' = "done"
            /\ UNCHANGED sleep
    /\ UNCHANGED <<credentials, topics, delay, fails, elapsed, commands,
                   pings, received, items,
                   last_ping, paused, abandoned, call>>

(* One second passes.  While the generator waits in select! the timer is
   handled at most MaxLate seconds late; while an item is pending or a Ping
   send hangs, time passes freely. *)
Tick ==
    /\ elapsed < MaxElapsed
    /\ \/ /\ pc = "select"
          /\ sleep > -MaxLate
          /\ sleep' = sleep - 1
       \/ /\ pc \in {"yield_text", "ping_hung"}
          /\ UNCHANGED sleep
    /\ elapsed' = elapsed + 1
    /\ paused' = (paused \/ pc = "yield_text")
    /\ UNCHANGED <<pc, credentials, topics, delay, fails, commands,
                   pings, received, items, last_ping, abandoned, call>>

(* The caller drops the stream: the generator, and with it the connection
   and the pending sleep and transport futures, is dropped. *)
Abandon ==
    /\ ~abandoned
    /\ abandoned' = TRUE
    /\ UNCHANGED <<pc, credentials, topics, delay, fails, elapsed, sleep,
                   commands, pings, received, items, last_ping, paused, call>>

(* A variant of Alive: the generator runs on a task of its own and outlives
   the stream the caller holds. *)
Alive_Detached == TRUE

(* The generator is owned by the stream the caller holds (stream.boxed()):
   it exists, and is polled, only until the caller drops the stream. *)
Alive == ~abandoned

Next ==
    \/ Alive /\ \E kind \in {"timeout", "error"} : ConnectFail(kind)
    \/ Alive /\ Backoff
    \/ Alive /\ ConnectOk
    \/ Alive /\ \E res \in SendResults : SendAuthenticate(res)
    \/ Alive /\ \E res \in SendResults : SendSubscribe(res)
    \/ Alive /\ \E res \in SendResults : TimerFired(res)
    \/ Alive /\ \E msg \in NextResults : NextMessage(msg)
    \/ Alive /\ Resume
    \/ Alive /\ Tick
    \/ Abandon

Spec == Init /\ [][Next]_vars

----------------------------------------------------------------------------
(* Signatures and the wire format of the commands: pure functions *)
(* Text is a sequence of characters; a character is a string of length 1.
   Ascii gives the byte of a character: as_bytes() of a &str of printable
   ASCII characters (the place of the grave accent, 96, is left empty). *)
Printable ==
    <<" ", "!", "\"", "#", "$", "%", "&", "'", "(", ")", "*", "+", ",", "-",
      ".", "/", "0", "1", "2", "3", "4", "5", "6", "7", "8", "9", ":", ";",
      "<", "=", ">", "?", "@", "A", "B", "C", "D", "E", "F", "G", "H", "I",
      "J", "K", "L", "M", "N", "O", "P", "Q", "R", "S", "T", "U", "V", "W",
      "X", "Y", "Z", "[", "\\", "]", "^", "_", "", "a", "b", "c", "d", "e",
      "f", "g", "h", "i", "j", "k", "l", "m", "n", "o", "p", "q", "r", "s",
      "t", "u", "v", "w", "x", "y", "z", "{", "|", "}", "~">>
Ascii(c) == 31 + CHOOSE i \in DOMAIN Printable : Printable[i] = c
AsBytes(text) == [i \in DOMAIN text |-> Ascii(text[i])]

(* format!("{}", expires): the decimal digits of an unsigned integer. *)
RECURSIVE Decimal(_)
Decimal(n) ==
    IF n < 10 THEN <<Printable[17 + n]>>
    ELSE Append(Decimal(n \div 10), Printable[17 + (n % 10)])

(* 32-bit words are pairs <<high 16 bits, low 16 bits>>; all arithmetic is
   modulo 2^32. *)
TwoTo == <<1, 2, 4, 8, 16, 32, 64, 128, 256, 512, 1024, 2048, 4096, 8192,
           16384, 32768, 65536>>
RECURSIVE Xor16(_, _)
Xor16(a, b) ==
    IF a = 0 THEN b
    ELSE IF b = 0 THEN a
    ELSE ((a + b) % 2) + 2 * Xor16(a \div 2, b \div 2)
RECURSIVE And16(_, _)
And16(a, b) ==
    IF a = 0 \/ b = 0 THEN 0
    ELSE ((a % 2) * (b % 2)) + 2 * And16(a \div 2, b \div 2)
Xor32(x, y) == <<Xor16(x[1], y[1]), Xor16(x[2], y[2])>>
And32(x, y) == <<And16(x[1], y[1]), And16(x[2], y[2])>>
Not32(x) == <<65535 - x[1], 65535 - x[2]>>
Add32(x, y) ==
    LET lo == x[2] + y[2]
        hi == x[1] + y[1] + (lo \div 65536)
    IN  <<hi % 65536, lo % 65536>>
RotR(x, n) ==
    LET s == IF n >= 16 THEN <<x[2], x[1]>> ELSE x
        m == n % 16
        p == TwoTo[m + 1]
        q == TwoTo[17 - m]
    IN  IF m = 0 THEN s
        ELSE <<(s[1] \div p) + (s[2] % p) * q, (s[2] \div p) + (s[1] % p) * q>>
ShR(x, n) ==
    LET p == TwoTo[n + 1]
        q == TwoTo[17 - n]
    IN  <<x[1] \div p, (x[2] \div p) + (x[1] % p) * q>>

(* SHA-256 (FIPS 180-4), the digest of ring::hmac::HMAC_SHA256. *)
K256 ==
  <<<<17034, 12184>>, <<28983, 17553>>, <<46528, 64463>>, <<59829, 56229>>,
    <<14678, 49755>>, <<23025, 4593>>, <<37439, 33444>>, <<43804, 24277>>,
    <<55303, 43672>>, <<4739, 23297>>, <<9265, 34238>>, <<21772, 32195>>,
    <<29374, 23924>>, <<32990, 45566>>, <<39900, 1703>>, <<49563, 61812>>,
    <<58523, 27073>>, <<61374, 18310>>, <<4033, 40390>>, <<9228, 41420>>,
    <<11753, 11375>>, <<19060, 33962>>, <<23728, 43484>>, <<30457, 35034>>,
    <<38974, 20818>>, <<43057, 50797>>, <<45059, 10184>>, <<48985, 32711>>,
    <<50912, 3059>>, <<54695, 37191>>, <<1738, 25425>>, <<5161, 10599>>,
    <<10167, 2693>>, <<11803, 8504>>, <<19756, 28156>>, <<21304, 3347>>,
    <<25866, 29524>>, <<30314, 2747>>, <<33218, 51502>>, <<37490, 11397>>,
    <<41663, 59553>>, <<43034, 26187>>, <<49739, 35696>>, <<51052, 20899>>,
    <<53650, 59417>>, <<54937, 1572>>, <<62478, 13701>>, <<4202, 41072>>,
    <<6564, 49430>>, <<7735, 27656>>, <<10056, 30540>>, <<13488, 48309>>,
    <<14620, 3251>>, <<20184, 43594>>, <<23452, 51791>>, <<26670, 28659>>,
    <<29839, 33518>>, <<30885, 25455>>, <<33992, 30740>>, <<36039, 520>>,
    <<37054, 65530>>, <<42064, 27883>>, <<48889, 41975>>, <<50801, 30962>>>>
InitialHash ==
  <<<<27145, 58983>>, <<47975, 44677>>, <<15470, 62322>>, <<42319, 62778>>,
    <<20750, 21119>>, <<39685, 26764>>, <<8067, 55723>>, <<23520, 52505>>>>
BigSigma0(x) == Xor32(Xor32(RotR(x, 2), RotR(x, 13)), RotR(x, 22))
BigSigma1(x) == Xor32(Xor32(RotR(x, 6), RotR(x, 11)), RotR(x, 25))
SmallSigma0(x) == Xor32(Xor32(RotR(x, 7), RotR(x, 18)), ShR(x, 3))
SmallSigma1(x) == Xor32(Xor32(RotR(x, 17), RotR(x, 19)), ShR(x, 10))
Ch(x, y, z) == Xor32(And32(x, y), And32(Not32(x), z))
Maj(x, y, z) == Xor32(Xor32(And32(x, y), And32(x, z)), And32(y, z))

RECURSIVE Schedule(_)
Schedule(w) ==
    LET t == Len(w) + 1
    IN  IF t > 64 THEN w
        ELSE Schedule(Append(w, Add32(Add32(SmallSigma1(w[t - 2]), w[t - 7]),
                                      Add32(SmallSigma0(w[t - 15]), w[t - 16]))))

RECURSIVE Rounds(_, _, _)
Rounds(s, w, t) ==
    IF t > 64 \/ Len(s) # 8 THEN s
    ELSE LET t1 == Add32(Add32(Add32(s[8], BigSigma1(s[5])),
                               Add32(Ch(s[5], s[6], s[7]), K256[t])), w[t])
             t2 == Add32(BigSigma0(s[1]), Maj(s[1], s[2], s[3]))
         IN  Rounds(<<Add32(t1, t2), s[1], s[2], s[3],
                      Add32(s[4], t1), s[5], s[6], s[7]>>, w, t + 1)

Compress(h, block) ==
    LET w == Schedule([j \in 1..16 |->
                         <<block[4 * j - 3] * 256 + block[4 * j - 2],
                           block[4 * j - 1] * 256 + block[4 * j]>>])
        s == Rounds(h, w, 1)
    IN  [i \in 1..8 |-> Add32(h[i], s[i])]

(* The message, 0x80, zeros up to 56 modulo 64, and the length in bits as 8
   bytes; the lengths here stay below 2^16 bytes. *)
Pad(bytes) ==
    LET len == Len(bytes)
        zeros == (119 - (len % 64)) % 64
        bits == 8 * len
    IN  bytes \o <<128>> \o [i \in 1..zeros |-> 0]
              \o <<0, 0, 0, 0, 0, bits \div 65536, (bits \div 256) % 256, bits % 256>>

RECURSIVE Blocks(_, _)
Blocks(h, bytes) ==
    IF bytes = <<>> THEN h
    ELSE Blocks(Compress(h, SubSeq(bytes, 1, 64)), SubSeq(bytes, 65, Len(bytes)))

Sha256(bytes) ==
    LET h == Blocks(InitialHash, Pad(bytes))
    IN  [i \in 1..32 |->
           LET word == h[((i - 1) \div 4) + 1]
               half == word[(((i - 1) % 4) \div 2) + 1]
           IN  IF i % 2 = 1 THEN half \div 256 ELSE half % 256]

(* HMAC (RFC 2104) with SHA-256: ring::hmac::Key::new and ring::hmac::sign. *)
HmacSha256(key, message) ==
    LET k0 == IF Len(key) > 64 THEN Sha256(key) ELSE key
        k == k0 \o [i \in 1..(64 - Len(k0)) |-> 0]
        ipad == [i \in 1..64 |-> Xor16(k[i], 54)]
        opad == [i \in 1..64 |-> Xor16(k[i], 92)]
    IN  Sha256(opad \o Sha256(ipad \o message))

(* hex::encode: two lowercase hexadecimal digits per byte. *)
HexDigits == <<"0", "1", "2", "3", "4", "5", "6", "7", "8", "9",
               "a", "b", "c", "d", "e", "f">>
RECURSIVE HexEncode(_)
HexEncode(bytes) ==
    IF bytes = <<>> THEN ""
    ELSE HexDigits[(bytes[1] \div 16) + 1] \o HexDigits[(bytes[1] % 16) + 1]
           \o HexEncode(Tail(bytes))

(* Method::as_str *)
MethodStr(method) ==
    CASE method = "GET" -> <<"G", "E", "T">>
      [] method = "POST" -> <<"P", "O", "S", "T">>

(* Option<&str>: url.query() *)
None == [some |-> FALSE, val |-> <<>>]
Some(v) == [some |-> TRUE, val |-> v]

(* A variant of sign_message: the query string is left out of the message. *)
sign_message_PathOnly(method, expires, url, body) ==
    MethodStr(method) \o url.path \o Decimal(expires) \o body

(* Credentials::sign: the message that is signed. *)
sign_message(method, expires, url, body) ==
    IF url.query.some
    THEN MethodStr(method) \o url.path \o <<"?">> \o url.query.val
           \o Decimal(expires) \o body
    ELSE MethodStr(method) \o url.path \o Decimal(expires) \o body

(* Credentials::sign.  The secret and the parts of the message are texts;
   the api_key, which is only copied, is a string. *)
sign(self, method, expires, url, body) ==
    [api_key |-> self.api_key,
     signature |-> HexEncode(HmacSha256(AsBytes(self.secret),
                                        AsBytes(sign_message(method, expires, url, body)))),
     expires |-> expires]

(* serde_json values, and serde_json::to_string: compact, members in the
   order they were serialized.  The strings here need no escaping. *)
JsonString(s) == [t |-> "string", v |-> s]
JsonNumber(n) == [t |-> "number", v |-> n]
JsonArray(elems) == [t |-> "array", v |-> elems]
JsonObject(members) == [t |-> "object", v |-> members]

RECURSIVE to_string(_)
to_string(json) ==
    LET RECURSIVE Join(_, _)
        Join(texts, i) ==
            IF i > Len(texts) THEN ""
            ELSE (IF i > 1 THEN "," ELSE "") \o texts[i] \o Join(texts, i + 1)
        Quote(s) == "\"" \o s \o "\""
    IN  CASE json.t = "string" -> Quote(json.v)
          [] json.t = "number" -> ToString(json.v)
          [] json.t = "array" ->
               "[" \o Join([i \in DOMAIN json.v |-> to_string(json.v[i])], 1) \o "]"
          [] json.t = "object" ->
               "{" \o Join([i \in DOMAIN json.v |->
                              Quote(json.v[i][1]) \o ":" \o to_string(json.v[i][2])], 1)
                   \o "}"

(* A variant of SerializeSignature: what #[derive(Serialize)] gives for the
   struct, a map keyed by the field names in the order of declaration. *)
SerializeSignature_Derived(sig) ==
    JsonObject(<< <<"api_key", JsonString(sig.api_key)>>,
                  <<"signature", JsonString(sig.signature)>>,
                  <<"expires", JsonNumber(sig.expires)>> >>)

(* impl Serialize for Signature: a tuple of 3 elements. *)
SerializeSignature(sig) ==
    JsonArray(<<JsonString(sig.api_key),
                JsonNumber(sig.expires),
                JsonString(sig.signature)>>)

(* enum Command *)
Subscribe(t) == [variant |-> "Subscribe", arg |-> t]
Authenticate(sig) == [variant |-> "Authenticate", arg |-> sig]

(* #[derive(Serialize)] of Command with tag = "op", content = "args",
   rename_all = "camelCase" and rename = "authKeyExpires". *)
SerializeCommand(command) ==
    CASE command.variant = "Subscribe" ->
           JsonObject(<< <<"op", JsonString("subscribe")>>,
                         <<"args", JsonArray([i \in DOMAIN command.arg |->
                                                JsonString(command.arg[i])])>> >>)
      [] command.variant = "Authenticate" ->
           JsonObject(<< <<"op", JsonString("authKeyExpires")>>,
                         <<"args", SerializeSignature(command.arg)>> >>)

(* impl TryFrom<Command> for tungstenite::Message *)
try_from(command) == [kind |-> "Text", data |-> to_string(SerializeCommand(command))]

(* The inputs of the tests. *)
TestSecret ==
    <<"c", "h", "N", "O", "O", "S", "4", "K", "v", "N", "X", "R", "_", "X",
      "q", "4", "k", "4", "c", "9", "q", "s", "f", "o", "K", "W", "v", "n",
      "D", "e", "c", "L", "A", "T", "C", "R", "l", "c", "B", "w", "y", "K",
      "D", "Y", "n", "W", "g", "O">>
TestCredentials == [api_key |-> "LAqUlngMIQkIUjXMUreyu3qn", secret |-> TestSecret]
InstrumentPath ==
    <<"/", "a", "p", "i", "/", "v", "1", "/", "i", "n", "s", "t", "r", "u",
      "m", "e", "n", "t">>
FilterQuery ==
    <<"f", "i", "l", "t", "e", "r", "=", "%", "7", "B", "%", "2", "2", "s",
      "y", "m", "b", "o", "l", "%", "2", "2", "%", "3", "A", "+", "%", "2",
      "2", "X", "B", "T", "M", "1", "5", "%", "2", "2", "%", "7", "D">>
OrderPath ==
    <<"/", "a", "p", "i", "/", "v", "1", "/", "o", "r", "d", "e", "r">>
OrderBody ==
    <<"{", "\"", "s", "y", "m", "b", "o", "l", "\"", ":", "\"", "X", "B", "T",
      "M", "1", "5", "\"", ",", "\"", "p", "r", "i", "c", "e", "\"", ":", "2",
      "1", "9", ".", "0", ",", "\"", "c", "l", "O", "r", "d", "I", "D", "\"",
      ":", "\"", "m", "m", "_", "b", "i", "t", "m", "e", "x", "_", "1", "a",
      "/", "o", "e", "m", "U", "e", "Q", "4", "C", "A", "J", "Z", "g", "P",
      "3", "f", "j", "H", "s", "A", "\"", ",", "\"", "o", "r", "d", "e", "r",
      "Q", "t", "y", "\"", ":", "9", "8", "}">>
TestSignatureGet ==
    [self |-> TestCredentials, method |-> "GET", expires |-> 1518064236,
     url |-> [path |-> InstrumentPath, query |-> None], body |-> <<>>]
TestSignatureGetParam ==
    [self |-> TestCredentials, method |-> "GET", expires |-> 1518064237,
     url |-> [path |-> InstrumentPath, query |-> Some(FilterQuery)], body |-> <<>>]
TestSignaturePost ==
    [self |-> TestCredentials, method |-> "POST", expires |-> 1518064238,
     url |-> [path |-> OrderPath, query |-> None], body |-> OrderBody]
TestSignature == [api_key |-> "api_key123", signature |-> "signature0x42", expires |-> 42]

(* The call of subscribe_impl, and inputs that differ from those of the tests
   in one part: another key, an empty query string, a body after a query. *)
RealtimePath ==
    <<"/", "r", "e", "a", "l", "t", "i", "m", "e">>
OtherCredentials == [api_key |-> "api_key123", secret |-> <<"k", "e", "y">>]
SignArgs ==
    {TestSignatureGet, TestSignatureGetParam, TestSignaturePost,
     [self |-> TestCredentials, method |-> "GET", expires |-> 1518064241,
      url |-> [path |-> RealtimePath, query |-> None], body |-> <<>>],
     [self |-> OtherCredentials, method |-> "GET", expires |-> 1518064236,
      url |-> [path |-> InstrumentPath, query |-> None], body |-> <<>>],
     [self |-> OtherCredentials, method |-> "GET", expires |-> 0,
      url |-> [path |-> RealtimePath, query |-> Some(<<>>)], body |-> <<>>],
     [self |-> OtherCredentials, method |-> "POST", expires |-> 42,
      url |-> [path |-> RealtimePath, query |-> Some(<<"a", "=", "1">>)],
      body |-> <<"{", "}">>]}

MaxTopics == 3
TopicNames == {"trade", "position", "orderBookL2:XBTUSD"}
TopicVecs == UNION {[1..n -> TopicNames] : n \in 0..MaxTopics}
SignatureValues ==
    [api_key : {"api_key123", "LAqUlngMIQkIUjXMUreyu3qn"},
     signature : {"signature0x42",
                  "c7682d435d0cfe87c16098df34ef2eb5a549d4c5a3c2b1f0f77b8af73423bf00"},
     expires : {0, 42, 1518064236, 2147483647}]
CommandValues ==
    {Subscribe(t) : t \in TopicVecs} \cup {Authenticate(sig) : sig \in SignatureValues}

Pending(fn, arg) == [fn |-> fn, arg |-> arg, done |-> FALSE, ret |-> <<>>]
Calls ==
    {Pending("sign", a) : a \in SignArgs}
      \cup {Pending("to_string", sig) : sig \in SignatureValues}
      \cup {Pending("try_from", command) : command \in CommandValues}

WireInit ==
    /\ call \in Calls
    /\ pc = "connect"
    /\ credentials = FALSE
    /\ topics = <<>>
    /\ delay = InitialDelay
    /\ fails = 0
    /\ elapsed = 0
    /\ sleep = 0
    /\ commands = <<>>
    /\ pings = 0
    /\ received = <<>>
    /\ items = <<>>
    /\ last_ping = <<>>
    /\ paused = FALSE
    /\ abandoned = FALSE

Return(value) ==
    /\ call' = [call EXCEPT !.done = TRUE, !.ret = value]
    /\ UNCHANGED <<pc, credentials, topics, delay, fails, elapsed, sleep,
                   commands, pings, received, items, last_ping, paused,
                   abandoned>>

CallSign ==
    /\ call.fn = "sign"
    /\ ~call.done
    /\ Return(sign(call.arg.self, call.arg.method, call.arg.expires,
                   call.arg.url, call.arg.body))

CallToString ==
    /\ call.fn = "to_string"
    /\ ~call.done
    /\ Return(to_string(SerializeSignature(call.arg)))

CallTryFrom ==
    /\ call.fn = "try_from"
    /\ ~call.done
    /\ Return(try_from(call.arg))

WireNext ==
    \/ CallSign
    \/ CallToString
    \/ CallTryFrom

WireSpec == WireInit /\ [][WireNext]_vars

----------------------------------------------------------------------------
(* Vocabulary of the properties *)

Connecting == pc \in {"connect", "backoff"}
Terminated == pc \in {"yield_err", "done"}
Last(seq) == seq[Len(seq)]
CommandIdx(c) == {i \in DOMAIN commands : commands[i].msg.cmd = c}

RECURSIVE Pow2(_)
Pow2(n) == IF n <= 0 THEN 1 ELSE 2 * Pow2(n - 1)

InLoop == pc \in {"select", "yield_text", "ping_hung", "yield_err", "done"}
ErrIdx == {i \in DOMAIN items : ~items[i].ok}
OkVals(its) ==
    LET oks == SelectSeq(its, LAMBDA x : x.ok)
    IN  [i \in 1..Len(oks) |-> oks[i].val]
Texts(rcv) ==
    LET txt == SelectSeq(rcv, LAMBDA m : m.kind = "Text")
    IN  [i \in 1..Len(txt) |-> txt[i].data]

(* The transport has delivered nothing and every Ping send has succeeded. *)
Quiet ==
    /\ InLoop
    /\ received = <<>>
    /\ pc # "ping_hung"
    /\ \A i \in DOMAIN items : items[i] # SendError

(* In select!: the value last_bitmex_message.elapsed() had when the current
   sleep was created. *)
SleepCreatedAt == elapsed - (5 - sleep)

(* A step of the sleep branch of select!. *)
TimerStep ==
    /\ pc = "select"
    /\ received' = received
    /\ elapsed' = elapsed
    /\ (pings' # pings \/ items' # items \/ pc' # pc)

----------------------------------------------------------------------------
(* C1, as stated: with a silent transport and successful sends the stream
   sends exactly 3 Pings, at about 5, 10 and 15 s, emits nothing before
   about 20 s and emits the timeout error, its only item, at about 20 s. *)
C1_Original ==
    Quiet =>
      /\ items \in {<<>>, <<TimedOut>>}
      /\ pings <= 3
      /\ pc = "select" =>
            /\ 5 * pings <= SleepCreatedAt
            /\ SleepCreatedAt <= (5 + MaxLate) * pings
      /\ items = <<TimedOut>> =>
            /\ pings = 3
            /\ 20 <= elapsed
            /\ elapsed <= 20 + 4 * MaxLate

(* C1, as amended: with a silent transport and successful sends the stream
   sends a Ping at every firing of the idle timer at which the silence is at
   most 20 s and emits the timeout error, its only item, at the first firing
   at which the silence exceeds 20 s.  The k-th Ping is sent between 5k and
   5k + k * MaxLate seconds and never after 20 s; nothing is emitted while
   the silence is at most 20 s.  There are at most 4 Pings; a 4th Ping is
   sent exactly when the 4th firing measures exactly 20 s, and then the
   timeout comes at 25 s or later; with the timers less than 5 s late in
   total there are 3 or 4 Pings. *)
C1_SilentTransport ==
    Quiet =>
      /\ items \in {<<>>, <<TimedOut>>}
      /\ (items = <<>>) <=> (pc = "select")
      /\ pings <= 4
      /\ pc = "select" =>
            /\ 5 * pings <= SleepCreatedAt
            /\ SleepCreatedAt <= (5 + MaxLate) * pings
            /\ SleepCreatedAt <= 20
            /\ elapsed <= SleepCreatedAt + 5 + MaxLate
            /\ pings = 4 => SleepCreatedAt = 20
      /\ items = <<TimedOut>> =>
            /\ elapsed > 20
            /\ 5 * (pings + 1) <= elapsed
            /\ elapsed <= (5 + MaxLate) * (pings + 1)
            /\ pings = 4 => elapsed >= 25
            /\ elapsed < 25 => pings <= 3
            /\ elapsed - 5 * (pings + 1) < 5 => pings \in {3, 4}

C1_Witness ==
    /\ Quiet
    /\ pc = "done"
    /\ items = <<TimedOut>>
    /\ pings = 4
    /\ elapsed = 25

(* C2, as stated: at every firing of the idle timer, a silence of at least
   20 s gives the timeout error, no Ping and the end of the stream; a silence
   of less than 20 s gives one Ping and no timeout error. *)
C2_Original ==
    [][TimerStep =>
          IF elapsed >= 20
          THEN items' = Append(items, TimedOut) /\ pings' = pings /\ pc' = "yield_err"
          ELSE pings' = pings + 1 /\ (items' = items \/ Last(items') # TimedOut)]_vars

(* C2, as amended: at every firing of the idle timer, a silence of more than
   20 s gives the timeout error, no Ping and the end of the stream; a silence
   of at most 20 s gives one Ping and no timeout error.  So a timeout error
   is emitted exactly when the silence at a firing exceeds 20 s. *)
C2_TimerFiring ==
    /\ [][TimerStep =>
             IF elapsed > 20
             THEN items' = Append(items, TimedOut) /\ pings' = pings /\ pc' = "yield_err"
             ELSE pings' = pings + 1 /\ (items' = items \/ Last(items') # TimedOut)]_vars
    /\ [](\A i \in DOMAIN items : items[i] = TimedOut => elapsed > 20 /\ Terminated)
    /\ [](pc = "select" /\ sleep = 5 /\ pings > 0 => elapsed <= 20)

C2_Witness ==
    /\ pc = "select"
    /\ sleep = 5
    /\ pings > 0
    /\ elapsed = 20

(* C3: the success items are exactly the payloads of the Text frames read,
   unchanged and in the order read; reading a Pong, Binary, Ping or Close
   frame adds no item and leaves the stream in its loop. *)
C3_TextRelay ==
    /\ [](OkVals(items) = Texts(received))
    /\ [][(Len(received') = Len(received) + 1
            /\ Last(received').kind \in {"Pong", "Binary", "Ping", "Close"}) =>
              items' = items /\ pc' = "select"]_vars

C3_Witness ==
    /\ Len(received) = 2
    /\ received[1].kind = "Close"
    /\ received[2] = [kind |-> "Text", data |-> "b"]
    /\ items = <<OkItem("b")>>

(* C4: termination is one-shot and permanent: at most one error item is
   emitted and it is the last item; once the stream has emitted an error item
   or ended, no item is emitted and nothing is done on the transport: no
   connection attempt, no command, no Ping, no read. *)
C4_TerminationPermanent ==
    /\ [](Cardinality(ErrIdx) <= 1 /\ \A i \in ErrIdx : i = Len(items))
    /\ [](ErrIdx # {} => Terminated)
    /\ [][Terminated =>
             /\ Terminated'
             /\ items' = items
             /\ commands' = commands
             /\ pings' = pings
             /\ received' = received
             /\ fails' = fails
             /\ elapsed' = elapsed]_vars

C4_Witness ==
    /\ pc = "done"
    /\ Len(items) = 3
    /\ items[1].ok
    /\ items[2].ok
    /\ items[3] = TimedOut

(* C5, as stated: in the streaming loop with a polling caller the stream ends
   with the timeout error within the silence budget, also when a Ping send
   neither completes nor fails.  The budget is taken with its slack: 20 s,
   one timer period and the lateness of one firing; a stream that has not
   ended has a silence within it. *)
C5_Original ==
    pc \in {"select", "ping_hung"} => elapsed <= 20 + 5 + MaxLate

----------------------------------------------------------------------------
(* C6: a failed connection attempt, a timeout or a handshake error, is never
   surfaced: while no attempt has succeeded the stream has emitted no item
   and has not ended; every failed attempt is followed by the backoff sleep
   and every backoff sleep by a new attempt, whatever the number of failed
   attempts so far, as long as the caller holds the stream. *)
C6_ConnectFailureNeverSurfaced ==
    /\ [](Connecting => items = <<>> /\ commands = <<>>)
    /\ [][Connecting =>
             /\ items' = <<>>
             /\ ~Terminated'
             /\ (fails' > fails => pc' = "backoff")
             /\ (pc = "backoff" /\ ~abandoned' => pc' = "connect")]_vars

C6_Witness == pc = "backoff" /\ fails = MaxFails /\ items = <<>>

(* C7: the wait after the k-th consecutive failed attempt is
   min(500 * 2^(k-1), 8000) ms, whatever the kinds of the failures; the delay
   never decreases or resets in the retry loop and stays within
   {500, 1000, 2000, 4000, 8000}. *)
C7_BackoffDelays ==
    /\ [](pc = "backoff" => fails >= 1 /\ delay = Min(500 * Pow2(fails - 1), 8000))
    /\ [](pc = "connect" => delay = Min(500 * Pow2(fails), 8000))
    /\ [](Connecting => delay \in {500, 1000, 2000, 4000, 8000})
    /\ [][Connecting /\ Connecting' => delay' >= delay /\ fails' >= fails]_vars

C7_Witness == pc = "backoff" /\ fails = 6 /\ delay = 8000

(* C8: at most one Authenticate command is ever sent; one is sent only when
   the stream was created with credentials; it is sent after the connection
   is open and before the Subscribe command. *)
C8_AuthenticateOnce ==
    /\ Cardinality(CommandIdx("Authenticate")) <= 1
    /\ CommandIdx("Authenticate") # {} => credentials /\ ~Connecting
    /\ \A i \in CommandIdx("Authenticate") :
           \A j \in CommandIdx("Subscribe") : i < j
    /\ ~credentials /\ ~Connecting => pc # "auth"
    /\ credentials /\ CommandIdx("Subscribe") # {} => CommandIdx("Authenticate") = {1}

C8_Witness ==
    /\ credentials
    /\ Len(commands) = 2
    /\ commands[1].msg.cmd = "Authenticate"
    /\ commands[2].msg.cmd = "Subscribe"
    /\ pings > 0

(* C9: once the connection is open the Subscribe command is sent exactly
   once, with or without credentials, carrying the caller's topic list as it
   is (same order, repetitions kept); it is sent before any frame is read
   and before any Ping, and never a second time. *)
C9_SubscribeOnce ==
    /\ Cardinality(CommandIdx("Subscribe")) <= 1
    /\ \A i \in CommandIdx("Subscribe") :
           /\ commands[i].msg.topics = topics
           /\ i = Len(commands)
    /\ (received # <<>> \/ pings > 0 \/ items # <<>>
          \/ pc \in {"select", "yield_text", "ping_hung", "yield_err", "done"})
         => Cardinality(CommandIdx("Subscribe")) = 1
    /\ pc \in {"connect", "backoff", "auth", "subscribe"}
         => CommandIdx("Subscribe") = {}

C9_Witness ==
    /\ topics = <<"b", "a", "b">>
    /\ Len(commands) = 1
    /\ commands[1].msg = [cmd |-> "Subscribe", topics |-> <<"b", "a", "b">>]
    /\ Len(received) = 2
    /\ pings > 0

(* C10: a failed send of the Authenticate or of the Subscribe command
   produces no item and does not end the stream: after a failed Authenticate
   send the Subscribe send comes next, and after a failed Subscribe send the
   stream enters the streaming loop with its idle timer armed. *)
C10_InitSendFailureNotFatal ==
    [][(Len(commands') = Len(commands) + 1 /\ Last(commands').res = "err") =>
          /\ items' = items
          /\ items' = <<>>
          /\ IF Last(commands').msg.cmd = "Authenticate"
             THEN pc' = "subscribe"
             ELSE pc' = "select" /\ sleep' = 5 /\ elapsed' = 0]_vars

C10_Witness ==
    /\ Len(commands) = 2
    /\ commands[1].res = "err"
    /\ commands[2].res = "err"
    /\ pc = "select"
    /\ pings > 0
    /\ \E i \in DOMAIN items : items[i].ok

----------------------------------------------------------------------------
(* C11: when the transport reports a clean end of stream (connection.next()
   gives None) the stream ends without an error item: the read adds no item,
   the generator returns, and the items emitted are the Text payloads read
   before the end, nothing else and nothing later. *)
C11_CleanEnd ==
    (received # <<>> /\ Last(received).kind = "None") =>
        /\ pc = "done"
        /\ ErrIdx = {}
        /\ Len(items) = Len(Texts(received))
        /\ OkVals(items) = Texts(received)

C11_Witness ==
    /\ Len(received) = 2
    /\ received[1].kind = "Text"
    /\ received[2].kind = "None"
    /\ items = <<OkItem(received[1].data)>>
    /\ pc = "done"

(* C12: a read error of the transport and a failed Ping send each emit
   exactly one error item, carrying that error, as the last item, and end the
   stream; neither is retried (no read and no Ping follows) nor dropped. *)
C12_TransportErrorsEndStream ==
    /\ (received # <<>> /\ Last(received).kind = "Err") =>
          /\ Terminated
          /\ Cardinality(ErrIdx) = 1
          /\ Last(items) = ErrItem(Last(received).data)
    /\ (last_ping # <<>> /\ last_ping.res = "err") =>
          /\ Terminated
          /\ Cardinality(ErrIdx) = 1
          /\ Last(items) = SendError
          /\ received = <<>> \/ Last(received).kind \notin {"None", "Err"}

C12_Witness ==
    /\ last_ping = Sent(PingFrame, "err")
    /\ pc = "done"
    /\ Len(items) = 2
    /\ items[1].ok
    /\ items[2] = SendError

(* C13: frames are read only while the caller polls the generator in
   select!: never while an emitted item is waiting for the caller to poll
   again.  No frame is held back: every Text frame read has been emitted, and
   the item that is pending is the frame read last. *)
C13_Backpressure ==
    /\ [][received' # received => pc = "select"]_vars
    /\ [][(pc \in {"yield_text", "yield_err"}) => received' = received]_vars
    /\ [](Len(OkVals(items)) = Len(Texts(received)))
    /\ [](pc = "yield_text" =>
              /\ Last(received).kind = "Text"
              /\ Last(items) = OkItem(Last(received).data))

C13_Witness ==
    /\ pc = "yield_text"
    /\ paused
    /\ elapsed = MaxElapsed
    /\ Len(received) = 1
    /\ Len(items) = 1

(* C14: once the caller has dropped the stream nothing happens any more: no
   connection attempt, no backoff, no command, no Ping, no read, no item, and
   no timer is served, wherever the generator was. *)
C14_AbandonCancels ==
    [][abandoned =>
          UNCHANGED <<pc, delay, fails, elapsed, sleep, commands, pings,
                      received, items, last_ping, paused>>]_vars

C14_Witness ==
    /\ abandoned
    /\ pc = "select"
    /\ sleep = 2
    /\ pings = 1
    /\ Len(received) = 1

(* C16: Credentials::sign is a function of its inputs: the signature is the
   lowercase hexadecimal HMAC-SHA256, keyed by the secret, of
   METHOD + PATH + "?" + QUERY + EXPIRES + BODY when the URL has a query
   string and of METHOD + PATH + EXPIRES + BODY otherwise, with EXPIRES in
   decimal digits and no separators; api_key and expires are carried over
   unchanged; the three vectors of the tests come out as the tests say. *)
C16_Sign ==
    (call.fn = "sign" /\ call.done) =>
        LET a == call.arg
            query == IF a.url.query.some THEN <<"?">> \o a.url.query.val ELSE <<>>
            message == MethodStr(a.method) \o a.url.path \o query
                         \o Decimal(a.expires) \o a.body
        IN  /\ call.ret.api_key = a.self.api_key
            /\ call.ret.expires = a.expires
            /\ Len(call.ret.signature) = 64
            /\ call.ret.signature =
                 HexEncode(HmacSha256(AsBytes(a.self.secret), AsBytes(message)))
            /\ a = TestSignatureGet => call.ret.signature =
                 "c7682d435d0cfe87c16098df34ef2eb5a549d4c5a3c2b1f0f77b8af73423bf00"
            /\ a = TestSignatureGetParam => call.ret.signature =
                 "e2f422547eecb5b3cb29ade2127e21b858b235b386bfa45e1c1756eb3383919f"
            /\ a = TestSignaturePost => call.ret.signature =
                 "1749cd2ccae4aa49048ae09f0b95110cee706e0944e6a14ad0b3a8cb45bd336b"

C16_Witness ==
    /\ call.fn = "sign"
    /\ call.done
    /\ call.arg = TestSignatureGetParam
    /\ call.ret.api_key = "LAqUlngMIQkIUjXMUreyu3qn"
    /\ call.ret.signature =
         "e2f422547eecb5b3cb29ade2127e21b858b235b386bfa45e1c1756eb3383919f"

(* C17: a Signature serializes as an array of exactly three elements, the
   api_key as a string, expires as a number and the signature as a string,
   in that order, never as an object; on the wire the Authenticate command
   is {"op":"authKeyExpires","args":<that array>} and the Subscribe command
   is {"op":"subscribe","args":[topics...]}, both as a Text message. *)
C17_WireFormat ==
    /\ (call.fn = "to_string" /\ call.done) =>
          LET json == SerializeSignature(call.arg)
          IN  /\ json.t = "array"
              /\ Len(json.v) = 3
              /\ json.v[1] = [t |-> "string", v |-> call.arg.api_key]
              /\ json.v[2] = [t |-> "number", v |-> call.arg.expires]
              /\ json.v[3] = [t |-> "string", v |-> call.arg.signature]
              /\ call.ret = "[\"" \o call.arg.api_key \o "\","
                              \o ToString(call.arg.expires) \o ",\""
                              \o call.arg.signature \o "\"]"
              /\ call.arg = TestSignature =>
                    call.ret = "[\"api_key123\",42,\"signature0x42\"]"
    /\ (call.fn = "try_from" /\ call.done) =>
          LET RECURSIVE Quoted(_)
              Quoted(t) ==
                  IF t = <<>> THEN ""
                  ELSE "\"" \o t[1] \o "\""
                         \o (IF Len(t) > 1 THEN "," ELSE "") \o Quoted(Tail(t))
              sig == call.arg.arg
          IN  /\ call.ret.kind = "Text"
              /\ call.arg.variant = "Authenticate" =>
                    call.ret.data = "{\"op\":\"authKeyExpires\",\"args\":[\""
                                      \o sig.api_key \o "\"," \o ToString(sig.expires)
                                      \o ",\"" \o sig.signature \o "\"]}"
              /\ call.arg.variant = "Subscribe" =>
                    call.ret.data = "{\"op\":\"subscribe\",\"args\":["
                                      \o Quoted(call.arg.arg) \o "]}"
              /\ call.arg = Subscribe(<<"trade", "position">>) =>
                    call.ret.data = "{\"op\":\"subscribe\",\"args\":[\"trade\",\"position\"]}"
              /\ call.arg = Subscribe(<<>>) =>
                    call.ret.data = "{\"op\":\"subscribe\",\"args\":[]}"

C17_Witness ==
    /\ call.fn = "try_from"
    /\ call.done
    /\ call.arg = Authenticate(TestSignature)
    /\ call.ret.data =
         "{\"op\":\"authKeyExpires\",\"args\":[\"api_key123\",42,\"signature0x42\"]}"

(* C18: an iteration of the loop handles one event: a step that reads a
   frame sends no Ping and emits no timeout, and a step that sends a Ping or
   emits the timeout reads nothing.  Every frame read, of any kind, sets the
   silence to zero.  A timeout after a silence the caller has polled through
   comes only after at least two Pings have gone unanswered since the last
   inbound frame, so a peer whose Pong to every Ping arrives within 5 s
   never causes it. *)
C18_OneEventPerIteration ==
    /\ [][received' # received =>
             /\ elapsed' = 0
             /\ pings' = 0
             /\ last_ping' = last_ping
             /\ (items' = items \/ Last(items') # TimedOut)]_vars
    /\ [][(pings' = pings + 1 \/ (items' # items /\ Last(items') = TimedOut)) =>
             received' = received /\ elapsed' = elapsed]_vars
    /\ []((\E i \in DOMAIN items : items[i] = TimedOut) /\ ~paused => pings >= 2)

C18_Witness ==
    /\ Len(received) = 2
    /\ received[1].kind = "Pong"
    /\ received[2].kind = "Pong"
    /\ last_ping = Sent(PingFrame, "ok")
    /\ pings = 0
    /\ elapsed = 0
    /\ pc = "select"
    /\ items = <<>>

(* C19: a Ping is sent only after 5 s without a processed inbound frame: the
   k-th Ping since the last frame is sent when the silence is at least 5k
   seconds.  The sleep of an iteration is created in that iteration, never
   before the last frame read and at least 5 s after each Ping sent since, so
   frames less than 5 s apart cause no Ping.  Every Ping carries 32 zero
   bytes. *)
C19_PingWhenIdle ==
    /\ elapsed >= 5 * pings
    /\ pc = "select" => sleep <= 5 /\ SleepCreatedAt >= 5 * pings
    /\ last_ping # <<>> =>
          /\ last_ping.msg.cmd = "Ping"
          /\ Len(last_ping.msg.payload) = 32
          /\ \A i \in 1..32 : last_ping.msg.payload[i] = 0

C19_Witness ==
    /\ last_ping = Sent(PingFrame, "ok")
    /\ Len(received) = 2
    /\ pings = 0
    /\ elapsed = 4
    /\ sleep = 1
    /\ pc = "select"

(* C20: while an emitted item waits for the caller, the stream does nothing:
   no Ping, no silence check, no item, no read; yet the silence keeps growing
   and is not reset when the caller polls again, which starts a new 5 s
   sleep.  When the caller has waited until the silence exceeds 15 s, the
   first firing of the timer after it resumes emits the timeout, and no Ping
   has been sent since the last inbound frame. *)
C20_SuspendedWhileNotPolled ==
    /\ [][(pc \in {"yield_text", "yield_err"}) =>
             /\ pings' = pings
             /\ last_ping' = last_ping
             /\ items' = items
             /\ received' = received
             /\ commands' = commands
             /\ elapsed' >= elapsed]_vars
    /\ [][pc = "yield_text" /\ pc' # pc =>
             pc' = "select" /\ sleep' = 5 /\ elapsed' = elapsed]_vars
    /\ [][TimerStep /\ paused /\ pings = 0 /\ SleepCreatedAt > 15 =>
             /\ items' = Append(items, TimedOut)
             /\ pc' = "yield_err"
             /\ pings' = 0]_vars

C20_Witness ==
    /\ pc = "yield_err"
    /\ paused
    /\ pings = 0
    /\ last_ping = <<>>
    /\ elapsed = 21
    /\ Len(items) = 2
    /\ items[1].ok
    /\ items[2] = TimedOut

====
